---- MODULE Spec2Model ----
(***************************************************************************)
(* Polygon algorithms of the H3 library (polygon.c, polygonAlgos.h):       *)
(* point containment, segment intersection, bounding boxes, and the        *)
(* polygon-level containment / intersection predicates built on them.      *)
(*                                                                         *)
(* Numbers.  The C code works on doubles.  Here a coordinate is an integer *)
(* count of half DBL_EPSILON steps: DBL_EPSILON, the increment the code    *)
(* adds (lat += DBL_EPSILON, lng -= DBL_EPSILON) and its coincidence       *)
(* threshold, is 2, so that a point can lie within the threshold of a      *)
(* vertex without being equal to it, as doubles of magnitude below 1 can.  *)
(* The vertices and grid query points of the fixtures are multiples of     *)
(* Scale, so that a nudged value never reaches another fixture value.  The *)
(* interpolated longitude of pointInside is a rational; it is kept as a    *)
(* numerator over the positive denominator (b.lat - a.lat) and compared by *)
(* cross multiplication, so no rounding is introduced by the model.        *)
(*                                                                         *)
(* A nudge always changes the value here.  In IEEE doubles lat += EPSILON  *)
(* always does (|lat| < 2), while lng -= EPSILON is absorbed or rounded to *)
(* even for |lng| >= 2 radians.  The edge-bias properties below are stated *)
(* on the unit square, where both nudges are exact; the transmeridian      *)
(* property compares two runs of the same arithmetic.                      *)
(***************************************************************************)
EXTENDS Integers, Sequences, FiniteSets, TLC

\* Fixed-point resolution: how many half DBL_EPSILON steps make one grid unit.
Scale == 100

\* float.h DBL_EPSILON, the nudge of pointInside and the coincidence threshold.
DBL_EPSILON == 2

\* constants.h M_PI and M_2PI: pi is 16 grid units.
M_PI == 16 * Scale
M_2PI == 2 * M_PI

\* float.h DBL_MAX: larger than every coordinate.
DBL_MAX == 1000 * M_PI

Abs(x) == IF x < 0 THEN -x ELSE x
fmin(x, y) == IF x < y THEN x ELSE y
fmax(x, y) == IF x > y THEN x ELSE y

LatLng(la, ln) == [lat |-> la, lng |-> ln]

\* A grid point: latitude and longitude in grid units.
G(la, ln) == LatLng(la * Scale, ln * Scale)

(***************************************************************************)
(* Collaborators of the loop algorithms (bbox.c, latLng.c, vec2d.c,        *)
(* polygon.h).                                                             *)
(***************************************************************************)
ZeroBBox == [north |-> 0, south |-> 0, east |-> 0, west |-> 0]

bboxIsTransmeridian(bbox) == bbox.east < bbox.west

bboxContains(bbox, point) ==
    /\ point.lat >= bbox.south
    /\ point.lat <= bbox.north
    /\ IF bboxIsTransmeridian(bbox)
       THEN point.lng >= bbox.west \/ point.lng <= bbox.east
       ELSE point.lng >= bbox.west /\ point.lng <= bbox.east

geoAlmostEqualThreshold(p1, p2, threshold) ==
    /\ Abs(p1.lat - p2.lat) < threshold
    /\ Abs(p1.lng - p2.lng) < threshold

\* Sign of the cross product (p1 - p0) x (p2 - p0).
v2dOrient(p0, p1, p2) ==
    LET cross == (p1.x - p0.x) * (p2.y - p0.y) - (p1.y - p0.y) * (p2.x - p0.x)
    IN  IF cross > 0 THEN 1 ELSE IF cross < 0 THEN -1 ELSE 0

\* ITERATE_GEOFENCE: the i-th edge (1-based) of a loop, closing edge included.
IS_EMPTY(loop) == Len(loop) = 0
EdgeA(loop, i) == loop[i]
EdgeB(loop, i) == loop[(i % Len(loop)) + 1]

(***************************************************************************)
(* polygonAlgos.h                                                          *)
(***************************************************************************)
NORMALIZE_LNG_Unshifted(lng, isTransmeridian) == lng

NORMALIZE_LNG(lng, isTransmeridian) ==
    IF isTransmeridian /\ lng < 0 THEN lng + M_2PI ELSE lng

\* "adjust the latitude northward if needed"
nudgeLatSouthward(lat, a, b) ==
    IF lat = a.lat \/ lat = b.lat THEN lat - DBL_EPSILON ELSE lat

\* The northward adjustment absorbed: lat + DBL_EPSILON rounds back to lat.
nudgeLatAbsorbed(lat, a, b) == lat

nudgeLat(lat, a, b) ==
    IF lat = a.lat \/ lat = b.lat THEN lat + DBL_EPSILON ELSE lat

\* "to decide tiebreakers, bias westerly"
nudgeLngEasterly(lng, aLng, bLng) ==
    IF aLng = lng \/ bLng = lng THEN lng + DBL_EPSILON ELSE lng

nudgeLng(lng, aLng, bLng) ==
    IF aLng = lng \/ bLng = lng THEN lng - DBL_EPSILON ELSE lng

\* One pass of the while loop of pointInside, from edge i on.  lat and lng
\* are the (possibly nudged) query coordinates, contains the parity so far.
RECURSIVE pointInsideFrom(_, _, _, _, _, _)
pointInsideFrom(loop, isTransmeridian, i, lat, lng, contains) ==
    IF i > Len(loop) THEN contains
    ELSE
      LET a0 == EdgeA(loop, i)
          b0 == EdgeB(loop, i)
          a == IF a0.lat > b0.lat THEN b0 ELSE a0
          b == IF a0.lat > b0.lat THEN a0 ELSE b0
          lat1 == nudgeLat(lat, a, b)
      IN  IF lat1 < a.lat \/ lat1 > b.lat
          THEN pointInsideFrom(loop, isTransmeridian, i + 1, lat1, lng, contains)
          ELSE
            LET aLng == NORMALIZE_LNG(a.lng, isTransmeridian)
                bLng == NORMALIZE_LNG(b.lng, isTransmeridian)
                lng1 == nudgeLng(lng, aLng, bLng)
                den == b.lat - a.lat
                \* testLng * den, with testLng = aLng + (bLng - aLng) * ratio
                num == aLng * den + (bLng - aLng) * (lat1 - a.lat)
                testNum == IF isTransmeridian /\ num < 0 THEN num + M_2PI * den ELSE num
                \* den = 0 gives ratio NaN or an infinity in C: NaN compares
                \* false, and so does the 0/0 of a degenerate edge.
                crosses == den > 0 /\ testNum > lng1 * den
            IN  pointInsideFrom(loop, isTransmeridian, i + 1, lat1, lng1,
                                IF crosses THEN ~contains ELSE contains)

pointInsideGeoLoop(loop, bbox, coord) ==
    IF ~bboxContains(bbox, coord) THEN FALSE
    ELSE LET isTransmeridian == bboxIsTransmeridian(bbox)
         IN  pointInsideFrom(loop, isTransmeridian, 1, coord.lat,
                             NORMALIZE_LNG(coord.lng, isTransmeridian), FALSE)

\* Whether the while loop of pointInside, from edge i on with the (possibly
\* nudged) query latitude lat, reaches the computation of ratio on an edge
\* with b.lat - a.lat = 0.
RECURSIVE ratioDividesByZeroFrom(_, _, _)
ratioDividesByZeroFrom(loop, i, lat) ==
    IF i > Len(loop) THEN FALSE
    ELSE
      LET a0 == EdgeA(loop, i)
          b0 == EdgeB(loop, i)
          a == IF a0.lat > b0.lat THEN b0 ELSE a0
          b == IF a0.lat > b0.lat THEN a0 ELSE b0
          lat1 == nudgeLat(lat, a, b)
      IN  IF lat1 < a.lat \/ lat1 > b.lat
          THEN ratioDividesByZeroFrom(loop, i + 1, lat1)
          ELSE b.lat - a.lat = 0 \/ ratioDividesByZeroFrom(loop, i + 1, lat1)

\* The accumulation of bboxFrom from vertex i on; acc holds the box so far,
\* minPosLng, maxNegLng and the transmeridian flag.
RECURSIVE bboxFromFrom(_, _, _)
bboxFromFrom(loop, i, acc) ==
    IF i > Len(loop) THEN acc
    ELSE
      LET coord == EdgeA(loop, i)
          next == EdgeB(loop, i)
          lat == coord.lat
          lng == coord.lng
      IN  bboxFromFrom(loop, i + 1,
            [south |-> IF lat < acc.south THEN lat ELSE acc.south,
             west |-> IF lng < acc.west THEN lng ELSE acc.west,
             north |-> IF lat > acc.north THEN lat ELSE acc.north,
             east |-> IF lng > acc.east THEN lng ELSE acc.east,
             minPosLng |-> IF lng > 0 /\ lng < acc.minPosLng THEN lng ELSE acc.minPosLng,
             maxNegLng |-> IF lng < 0 /\ lng > acc.maxNegLng THEN lng ELSE acc.maxNegLng,
             isTransmeridian |-> acc.isTransmeridian \/ Abs(lng - next.lng) > M_PI])

\* bboxFrom without the final swap of east and west for a transmeridian
\* loop (polygonAlgos.h:314-317).
bboxFromGeoLoopNoSwap(loop) ==
    IF IS_EMPTY(loop) THEN ZeroBBox
    ELSE
      LET acc == bboxFromFrom(loop, 1,
                   [south |-> DBL_MAX, west |-> DBL_MAX, north |-> -DBL_MAX,
                    east |-> -DBL_MAX, minPosLng |-> DBL_MAX,
                    maxNegLng |-> -DBL_MAX, isTransmeridian |-> FALSE])
      IN  [north |-> acc.north, south |-> acc.south,
           east |-> acc.east, west |-> acc.west]

bboxFromGeoLoop(loop) ==
    IF IS_EMPTY(loop) THEN ZeroBBox
    ELSE
      LET acc == bboxFromFrom(loop, 1,
                   [south |-> DBL_MAX, west |-> DBL_MAX, north |-> -DBL_MAX,
                    east |-> -DBL_MAX, minPosLng |-> DBL_MAX,
                    maxNegLng |-> -DBL_MAX, isTransmeridian |-> FALSE])
      IN  [north |-> acc.north, south |-> acc.south,
           east |-> IF acc.isTransmeridian THEN acc.maxNegLng ELSE acc.east,
           west |-> IF acc.isTransmeridian THEN acc.minPosLng ELSE acc.west]

\* The crossing test with only the loop edge's side of it: the edge's
\* endpoints lie on opposite sides of the query segment's line.
trueCrossingOfLineOnly(oa, ob, o0, o1) == oa * ob = -1

\* "True intersection": the loop edge's endpoints have opposite orientation
\* to the query segment and the query's endpoints to the loop edge.
trueCrossing(oa, ob, o0, o1) == oa * ob = -1 /\ o0 * o1 = -1

\* The while loop of segmentIntersects with the carried orientation kept
\* across a box-pruned edge: reused is not reset at polygonAlgos.h:209.
RECURSIVE segmentIntersectsFromReuseNotReset(_, _, _, _, _, _)
segmentIntersectsFromReuseNotReset(loop, q, i, oa, first, reused) ==
    IF i > Len(loop) THEN FALSE
    ELSE
      LET a == EdgeA(loop, i)
          b == EdgeB(loop, i)
          va == [x |-> NORMALIZE_LNG(a.lng, q.isTransmeridian), y |-> a.lat]
          vb == [x |-> NORMALIZE_LNG(b.lng, q.isTransmeridian), y |-> b.lat]
          xminAb == fmin(va.x, vb.x)
          xmaxAb == fmax(va.x, vb.x)
          yminAb == fmin(va.y, vb.y)
          ymaxAb == fmax(va.y, vb.y)
          oa1 == IF reused THEN oa ELSE v2dOrient(q.v0, q.v1, va)
          ob == v2dOrient(q.v0, q.v1, vb)
          o0 == v2dOrient(va, vb, q.v0)
          o1 == v2dOrient(va, vb, q.v1)
      IN  IF q.xmax < xminAb \/ xmaxAb < q.xmin \/ q.ymax < yminAb \/ ymaxAb < q.ymin
          THEN segmentIntersectsFromReuseNotReset(loop, q, i + 1, oa, FALSE, reused)
          ELSE IF first /\ (\/ geoAlmostEqualThreshold(q.p0, a, DBL_EPSILON)
                            \/ geoAlmostEqualThreshold(q.p0, b, DBL_EPSILON))
          THEN TRUE
          ELSE IF \/ geoAlmostEqualThreshold(q.p1, a, DBL_EPSILON)
                  \/ geoAlmostEqualThreshold(q.p1, b, DBL_EPSILON)
          THEN TRUE
          ELSE IF /\ ~reused
                  /\ oa1 = 0
                  /\ q.xmin <= va.x /\ va.x <= q.xmax
                  /\ q.ymin <= va.y /\ va.y <= q.ymax
          THEN TRUE
          ELSE IF /\ ob = 0
                  /\ q.xmin <= vb.x /\ vb.x <= q.xmax
                  /\ q.ymin <= vb.y /\ vb.y <= q.ymax
          THEN TRUE
          ELSE IF /\ o0 = 0
                  /\ xminAb <= q.v0.x /\ q.v0.x <= xmaxAb
                  /\ yminAb <= q.v0.y /\ q.v0.y <= ymaxAb
          THEN TRUE
          ELSE IF /\ o1 = 0
                  /\ xminAb <= q.v1.x /\ q.v1.x <= xmaxAb
                  /\ yminAb <= q.v1.y /\ q.v1.y <= ymaxAb
          THEN TRUE
          ELSE IF trueCrossing(oa1, ob, o0, o1)
          THEN TRUE
          ELSE segmentIntersectsFromReuseNotReset(loop, q, i + 1, ob, first, TRUE)

\* The while loop of segmentIntersects from edge i on.  q holds what is fixed
\* for the call: the endpoints p0, p1, their vectors v0, v1, the segment's
\* bounds and the transmeridian flag; oa, first and reused are the locals
\* carried from edge to edge.
RECURSIVE segmentIntersectsFrom(_, _, _, _, _, _)
segmentIntersectsFrom(loop, q, i, oa, first, reused) ==
    IF i > Len(loop) THEN FALSE
    ELSE
      LET a == EdgeA(loop, i)
          b == EdgeB(loop, i)
          va == [x |-> NORMALIZE_LNG(a.lng, q.isTransmeridian), y |-> a.lat]
          vb == [x |-> NORMALIZE_LNG(b.lng, q.isTransmeridian), y |-> b.lat]
          xminAb == fmin(va.x, vb.x)
          xmaxAb == fmax(va.x, vb.x)
          yminAb == fmin(va.y, vb.y)
          ymaxAb == fmax(va.y, vb.y)
          oa1 == IF reused THEN oa ELSE v2dOrient(q.v0, q.v1, va)
          ob == v2dOrient(q.v0, q.v1, vb)
          o0 == v2dOrient(va, vb, q.v0)
          o1 == v2dOrient(va, vb, q.v1)
      IN  IF q.xmax < xminAb \/ xmaxAb < q.xmin \/ q.ymax < yminAb \/ ymaxAb < q.ymin
          THEN segmentIntersectsFrom(loop, q, i + 1, oa, FALSE, FALSE)
          ELSE IF first /\ (\/ geoAlmostEqualThreshold(q.p0, a, DBL_EPSILON)
                            \/ geoAlmostEqualThreshold(q.p0, b, DBL_EPSILON))
          THEN TRUE
          ELSE IF \/ geoAlmostEqualThreshold(q.p1, a, DBL_EPSILON)
                  \/ geoAlmostEqualThreshold(q.p1, b, DBL_EPSILON)
          THEN TRUE
          ELSE IF /\ ~reused
                  /\ oa1 = 0
                  /\ q.xmin <= va.x /\ va.x <= q.xmax
                  /\ q.ymin <= va.y /\ va.y <= q.ymax
          THEN TRUE
          ELSE IF /\ ob = 0
                  /\ q.xmin <= vb.x /\ vb.x <= q.xmax
                  /\ q.ymin <= vb.y /\ vb.y <= q.ymax
          THEN TRUE
          ELSE IF /\ o0 = 0
                  /\ xminAb <= q.v0.x /\ q.v0.x <= xmaxAb
                  /\ yminAb <= q.v0.y /\ q.v0.y <= ymaxAb
          THEN TRUE
          ELSE IF /\ o1 = 0
                  /\ xminAb <= q.v1.x /\ q.v1.x <= xmaxAb
                  /\ yminAb <= q.v1.y /\ q.v1.y <= ymaxAb
          THEN TRUE
          ELSE IF trueCrossing(oa1, ob, o0, o1)
          THEN TRUE
          ELSE segmentIntersectsFrom(loop, q, i + 1, ob, first, TRUE)

\* The fail-fast test of segmentIntersects against the loop's bounding box.
segmentOutsideBBox(bbox, p0, p1) ==
    \/ (p0.lat > bbox.north /\ p1.lat > bbox.north)
    \/ (p0.lng > bbox.east /\ p1.lng > bbox.east)
    \/ (p0.lat < bbox.south /\ p1.lat < bbox.south)
    \/ (p0.lng < bbox.west /\ p1.lng < bbox.west)

segmentIntersectsGeoLoop(loop, bbox, p0, p1) ==
    IF IS_EMPTY(loop) THEN FALSE
    ELSE IF segmentOutsideBBox(bbox, p0, p1) THEN FALSE
    ELSE
      LET isTransmeridian == bboxIsTransmeridian(bbox) \/ Abs(p0.lng - p1.lng) > M_PI
          v0 == [x |-> NORMALIZE_LNG(p0.lng, isTransmeridian), y |-> p0.lat]
          v1 == [x |-> NORMALIZE_LNG(p1.lng, isTransmeridian), y |-> p1.lat]
          q == [p0 |-> p0, p1 |-> p1, v0 |-> v0, v1 |-> v1,
                isTransmeridian |-> isTransmeridian,
                xmin |-> fmin(v0.x, v1.x), xmax |-> fmax(v0.x, v1.x),
                ymin |-> fmin(v0.y, v1.y), ymax |-> fmax(v0.y, v1.y)]
      IN  segmentIntersectsFrom(loop, q, 1, 0, TRUE, FALSE)

\* The while loop of segmentIntersects without the reuse: the orientation
\* of the edge's first endpoint, and its zero-orientation / in-rectangle
\* check, are computed on every edge that is not box-pruned.
RECURSIVE segmentIntersectsRecomputedFrom(_, _, _, _)
segmentIntersectsRecomputedFrom(loop, q, i, first) ==
    IF i > Len(loop) THEN FALSE
    ELSE
      LET a == EdgeA(loop, i)
          b == EdgeB(loop, i)
          va == [x |-> NORMALIZE_LNG(a.lng, q.isTransmeridian), y |-> a.lat]
          vb == [x |-> NORMALIZE_LNG(b.lng, q.isTransmeridian), y |-> b.lat]
          xminAb == fmin(va.x, vb.x)
          xmaxAb == fmax(va.x, vb.x)
          yminAb == fmin(va.y, vb.y)
          ymaxAb == fmax(va.y, vb.y)
          oa == v2dOrient(q.v0, q.v1, va)
          ob == v2dOrient(q.v0, q.v1, vb)
          o0 == v2dOrient(va, vb, q.v0)
          o1 == v2dOrient(va, vb, q.v1)
      IN  IF q.xmax < xminAb \/ xmaxAb < q.xmin \/ q.ymax < yminAb \/ ymaxAb < q.ymin
          THEN segmentIntersectsRecomputedFrom(loop, q, i + 1, FALSE)
          ELSE IF \/ first /\ (\/ geoAlmostEqualThreshold(q.p0, a, DBL_EPSILON)
                               \/ geoAlmostEqualThreshold(q.p0, b, DBL_EPSILON))
                  \/ geoAlmostEqualThreshold(q.p1, a, DBL_EPSILON)
                  \/ geoAlmostEqualThreshold(q.p1, b, DBL_EPSILON)
                  \/ /\ oa = 0
                     /\ q.xmin <= va.x /\ va.x <= q.xmax
                     /\ q.ymin <= va.y /\ va.y <= q.ymax
                  \/ /\ ob = 0
                     /\ q.xmin <= vb.x /\ vb.x <= q.xmax
                     /\ q.ymin <= vb.y /\ vb.y <= q.ymax
                  \/ /\ o0 = 0
                     /\ xminAb <= q.v0.x /\ q.v0.x <= xmaxAb
                     /\ yminAb <= q.v0.y /\ q.v0.y <= ymaxAb
                  \/ /\ o1 = 0
                     /\ xminAb <= q.v1.x /\ q.v1.x <= xmaxAb
                     /\ yminAb <= q.v1.y /\ q.v1.y <= ymaxAb
                  \/ trueCrossing(oa, ob, o0, o1)
          THEN TRUE
          ELSE segmentIntersectsRecomputedFrom(loop, q, i + 1, first)

\* What is fixed for a call of segmentIntersects on a segment that passed
\* the fail-fast test.
segmentQuery(bbox, p0, p1) ==
    LET isTransmeridian == bboxIsTransmeridian(bbox) \/ Abs(p0.lng - p1.lng) > M_PI
        v0 == [x |-> NORMALIZE_LNG(p0.lng, isTransmeridian), y |-> p0.lat]
        v1 == [x |-> NORMALIZE_LNG(p1.lng, isTransmeridian), y |-> p1.lat]
    IN  [p0 |-> p0, p1 |-> p1, v0 |-> v0, v1 |-> v1,
         isTransmeridian |-> isTransmeridian,
         xmin |-> fmin(v0.x, v1.x), xmax |-> fmax(v0.x, v1.x),
         ymin |-> fmin(v0.y, v1.y), ymax |-> fmax(v0.y, v1.y)]

segmentIntersectsRecomputed(loop, bbox, p0, p1) ==
    IF IS_EMPTY(loop) THEN FALSE
    ELSE IF segmentOutsideBBox(bbox, p0, p1) THEN FALSE
    ELSE segmentIntersectsRecomputedFrom(loop, segmentQuery(bbox, p0, p1), 1, TRUE)

\* The locals oa and reused of segmentIntersects as the loop carries them
\* from edge to edge (oa = ob; reused = true after an edge that was not
\* pruned, reused = false after a pruned one): whether on every edge from
\* i on that is entered with reused set, the carried oa is the orientation
\* of that edge's first endpoint.
RECURSIVE carriedOrientationIsCurrentFrom(_, _, _, _, _)
carriedOrientationIsCurrentFrom(loop, q, i, oa, reused) ==
    IF i > Len(loop) THEN TRUE
    ELSE
      LET a == EdgeA(loop, i)
          b == EdgeB(loop, i)
          va == [x |-> NORMALIZE_LNG(a.lng, q.isTransmeridian), y |-> a.lat]
          vb == [x |-> NORMALIZE_LNG(b.lng, q.isTransmeridian), y |-> b.lat]
      IN  IF \/ q.xmax < fmin(va.x, vb.x) \/ fmax(va.x, vb.x) < q.xmin
             \/ q.ymax < fmin(va.y, vb.y) \/ fmax(va.y, vb.y) < q.ymin
          THEN carriedOrientationIsCurrentFrom(loop, q, i + 1, oa, FALSE)
          ELSE /\ reused => oa = v2dOrient(q.v0, q.v1, va)
               /\ carriedOrientationIsCurrentFrom(loop, q, i + 1,
                                                  v2dOrient(q.v0, q.v1, vb), TRUE)

\* The pass of isClockwiseNormalized that, on meeting a transmeridian arc,
\* turns normalization on and goes on from that edge with the sum so far.
RECURSIVE isClockwiseNormalizedKeepingSum(_, _, _, _)
isClockwiseNormalizedKeepingSum(loop, isTransmeridian, i, sum) ==
    IF i > Len(loop) THEN [clockwise |-> sum > 0, passes |-> 1]
    ELSE
      LET a == EdgeA(loop, i)
          b == EdgeB(loop, i)
          isT == isTransmeridian \/ Abs(a.lng - b.lng) > M_PI
      IN  isClockwiseNormalizedKeepingSum(loop, isT, i + 1,
            sum + (NORMALIZE_LNG(b.lng, isT) - NORMALIZE_LNG(a.lng, isT))
                  * (b.lat + a.lat))

\* isClockwiseNormalized: the while loop from edge i on with the sum so far.
\* The value is the answer and the number of passes over the loop it took
\* (this one and those of the restart).
RECURSIVE isClockwiseNormalizedFrom(_, _, _, _)
isClockwiseNormalizedFrom(loop, isTransmeridian, i, sum) ==
    IF i > Len(loop) THEN [clockwise |-> sum > 0, passes |-> 1]
    ELSE
      LET a == EdgeA(loop, i)
          b == EdgeB(loop, i)
      IN  IF ~isTransmeridian /\ Abs(a.lng - b.lng) > M_PI
          THEN LET again == isClockwiseNormalizedFrom(loop, TRUE, 1, 0)
               IN  [clockwise |-> again.clockwise, passes |-> again.passes + 1]
          ELSE isClockwiseNormalizedFrom(loop, isTransmeridian, i + 1,
                 sum + (NORMALIZE_LNG(b.lng, isTransmeridian)
                          - NORMALIZE_LNG(a.lng, isTransmeridian))
                       * (b.lat + a.lat))

isClockwiseNormalized(loop, isTransmeridian) ==
    isClockwiseNormalizedFrom(loop, isTransmeridian, 1, 0)

\* isClockwise with the sign of the answer inverted.
isClockwiseGeoLoopInverted(loop) == ~isClockwiseNormalized(loop, FALSE).clockwise

isClockwiseGeoLoop(loop) == isClockwiseNormalized(loop, FALSE).clockwise

(***************************************************************************)
(* polygon.c.  A polygon is [geoloop, holes]; numHoles is Len(holes).  The *)
(* C arrays are 0-based: bboxes[k] of the code is bboxes[k + 1] here, and  *)
(* holes[j] of the code is holes[j + 1].                                   *)
(***************************************************************************)
numHoles(geoPolygon) == Len(geoPolygon.holes)

bboxesFromGeoPolygon(polygon) ==
    [k \in 1..(numHoles(polygon) + 1) |->
        IF k = 1 THEN bboxFromGeoLoop(polygon.geoloop)
        ELSE bboxFromGeoLoop(polygon.holes[k - 1])]

\* The hole scan of pointInsidePolygon from hole i (0-based) on: FALSE at
\* the first hole containing coord, TRUE when none does.
RECURSIVE notInHolesFrom(_, _, _, _)
notInHolesFrom(geoPolygon, bboxes, coord, i) ==
    IF i >= numHoles(geoPolygon) THEN TRUE
    ELSE IF pointInsideGeoLoop(geoPolygon.holes[i + 1], bboxes[i + 2], coord)
    THEN FALSE
    ELSE notInHolesFrom(geoPolygon, bboxes, coord, i + 1)

pointInsidePolygonFromSecondHole(geoPolygon, bboxes, coord) ==
    LET contains == pointInsideGeoLoop(geoPolygon.geoloop, bboxes[1], coord)
    IN  IF contains /\ numHoles(geoPolygon) > 0
        THEN notInHolesFrom(geoPolygon, bboxes, coord, 1)
        ELSE contains

pointInsidePolygon(geoPolygon, bboxes, coord) ==
    LET contains == pointInsideGeoLoop(geoPolygon.geoloop, bboxes[1], coord)
    IN  IF contains /\ numHoles(geoPolygon) > 0
        THEN notInHolesFrom(geoPolygon, bboxes, coord, 0)
        ELSE contains

\* Step 1 of geoLoopInsidePolygon: every vertex from i (0-based) on is
\* inside the polygon.
RECURSIVE allVertsInsideFrom(_, _, _, _)
allVertsInsideFrom(geoPolygon, bboxes, loop, i) ==
    IF i >= Len(loop) THEN TRUE
    ELSE IF ~pointInsidePolygon(geoPolygon, bboxes, loop[i + 1]) THEN FALSE
    ELSE allVertsInsideFrom(geoPolygon, bboxes, loop, i + 1)

\* "Check for hole points inside the loop": some vertex of some hole is
\* inside the candidate loop.
holePointInsideLoop(geoPolygon, loop) ==
    LET loopBbox == bboxFromGeoLoop(loop)
    IN  \E i \in 1..numHoles(geoPolygon) :
          \E j \in 1..Len(geoPolygon.holes[i]) :
             pointInsideGeoLoop(loop, loopBbox, geoPolygon.holes[i][j])

\* "Check for loop segments intersecting the outer loop or the holes".
loopSegmentIntersects(geoPolygon, bboxes, loop) ==
    \E i \in 1..Len(loop) :
       LET p1 == loop[i]
           p2 == loop[(i % Len(loop)) + 1]
       IN  \/ segmentIntersectsGeoLoop(geoPolygon.geoloop, bboxes[1], p1, p2)
           \/ \E j \in 1..numHoles(geoPolygon) :
                 segmentIntersectsGeoLoop(geoPolygon.holes[j], bboxes[j + 1], p1, p2)

\* geoLoopInsidePolygon without the early return for loops of fewer than 2
\* vertices (polygon.c:95-97).
geoLoopInsidePolygonNoShortcut(geoPolygon, bboxes, loop) ==
    IF ~allVertsInsideFrom(geoPolygon, bboxes, loop, 0) THEN FALSE
    ELSE IF /\ Len(loop) > 2
            /\ numHoles(geoPolygon) > 0
            /\ holePointInsideLoop(geoPolygon, loop)
    THEN FALSE
    ELSE ~loopSegmentIntersects(geoPolygon, bboxes, loop)

geoLoopInsidePolygon(geoPolygon, bboxes, loop) ==
    IF ~allVertsInsideFrom(geoPolygon, bboxes, loop, 0) THEN FALSE
    ELSE IF Len(loop) < 2 THEN Len(loop) # 0
    ELSE IF /\ Len(loop) > 2
            /\ numHoles(geoPolygon) > 0
            /\ holePointInsideLoop(geoPolygon, loop)
    THEN FALSE
    ELSE ~loopSegmentIntersects(geoPolygon, bboxes, loop)

\* The first hole j' >= j (0-based) containing coord, -1 when there is none.
RECURSIVE firstHoleFrom(_, _, _, _)
firstHoleFrom(geoPolygon, bboxes, coord, j) ==
    IF j >= numHoles(geoPolygon) THEN -1
    ELSE IF pointInsideGeoLoop(geoPolygon.holes[j + 1], bboxes[j + 2], coord) THEN j
    ELSE firstHoleFrom(geoPolygon, bboxes, coord, j + 1)

\* The test made when a vertex is found in hole j: "Previous point is either
\* outside the outer loop or in a different hole".
inDifferentRegion(j, holeIndex) == j > 0 /\ holeIndex # j

\* The vertex scan of geoLoopIntersectsPolygon from vertex i (0-based) on:
\* whether it returned true, and the hole index it ends with.
RECURSIVE vertexScanFrom(_, _, _, _, _)
vertexScanFrom(geoPolygon, bboxes, loop, i, holeIndex) ==
    IF i >= Len(loop) THEN [returned |-> FALSE, holeIndex |-> holeIndex]
    ELSE
      LET coord == loop[i + 1]
          contains == pointInsideGeoLoop(geoPolygon.geoloop, bboxes[1], coord)
          j == IF contains /\ numHoles(geoPolygon) > 0
               THEN firstHoleFrom(geoPolygon, bboxes, coord, 0)
               ELSE -1
      IN  IF j >= 0
          THEN IF inDifferentRegion(j, holeIndex)
               THEN [returned |-> TRUE, holeIndex |-> holeIndex]
               ELSE vertexScanFrom(geoPolygon, bboxes, loop, i + 1, j)
          ELSE IF contains
          THEN [returned |-> TRUE, holeIndex |-> holeIndex]
          ELSE vertexScanFrom(geoPolygon, bboxes, loop, i + 1, holeIndex)

\* The loop and the bounding box the edge scan tests against.  The code reads
\* bboxes[0] for the outer loop and bboxes[holeIndex] for a hole.
regionLoop(geoPolygon, holeIndex) ==
    IF holeIndex = -1 THEN geoPolygon.geoloop ELSE geoPolygon.holes[holeIndex + 1]

regionBBox(bboxes, holeIndex) ==
    IF holeIndex = -1 THEN bboxes[1] ELSE bboxes[holeIndex + 1]

\* The edge scan of geoLoopIntersectsPolygon.
edgeScan(geoloop, bbox, loop) ==
    \E i \in 1..Len(loop) :
       segmentIntersectsGeoLoop(geoloop, bbox, loop[i], loop[(i % Len(loop)) + 1])

\* geoLoopIntersectsPolygon with both early returns of its vertex loop lost:
\* only the edge scan against the last region found decides.
geoLoopIntersectsPolygonEdgesOnly(geoPolygon, bboxes, loop) ==
    LET scan == vertexScanFrom(geoPolygon, bboxes, loop, 0, -1)
    IN  IF Len(loop) > 1
        THEN edgeScan(regionLoop(geoPolygon, scan.holeIndex),
                      regionBBox(bboxes, scan.holeIndex), loop)
        ELSE FALSE

\* polygon.c geoLoopIntersectsPolygon: the vertex loop, then the edge loop.
geoLoopIntersectsPolygon(geoPolygon, bboxes, loop) ==
    LET scan == vertexScanFrom(geoPolygon, bboxes, loop, 0, -1)
    IN  IF scan.returned THEN TRUE
        ELSE IF Len(loop) > 1
        THEN edgeScan(regionLoop(geoPolygon, scan.holeIndex),
                      regionBBox(bboxes, scan.holeIndex), loop)
        ELSE FALSE

(***************************************************************************)
(* Fixtures: the loops and polygons of testPolygon.c, set on the grid.     *)
(* A rectangle is listed the way the tests list theirs.                    *)
(***************************************************************************)
\* Longitude in grid units of the unwrapped frame (0 .. 2 pi) back to
\* (-pi, pi].
PiG == M_PI \div Scale
WrapLng(x) == IF x > PiG THEN x - 2 * PiG ELSE x

\* The loop {lat1,lng1}, {lat1,lng2}, {lat2,lng2}, {lat2,lng1}.
Rect(lat1, lat2, lng1, lng2) ==
    << G(lat1, WrapLng(lng1)), G(lat1, WrapLng(lng2)),
       G(lat2, WrapLng(lng2)), G(lat2, WrapLng(lng1)) >>

\* pointInsideGeoLoopCornerCases: {0,0}, {1,0}, {1,1}, {0,1}; 1.0 is 4 units.
CornerSquare == << G(0, 0), G(4, 0), G(4, 4), G(0, 4) >>
\* pointInsideGeoLoopExtraEdgeCase: {0,0}, {1,0.5}, {0,1}
ExtraTriangle == << G(0, 0), G(4, 2), G(0, 4) >>
\* segmentIntersectsGeoLoopEdgeTouch: {0,0}, {0,1}, {1,1}
TouchTriangle == << G(0, 0), G(0, 4), G(4, 4) >>
\* geoLoopInsidePolygonNonConvex: {0,0}, {0,1}, {0.5,0.5}, {1,1}, {1,0}
NonConvexLoop == << G(0, 0), G(0, 4), G(2, 2), G(4, 4), G(4, 0) >>
\* pointInsideGeoLoopTransmeridian: lats +-0.01, lngs -pi+0.01 and pi-0.01;
\* 0.01 is 2 units.
TransRect == << G(2, 2 - PiG), G(2, PiG - 2), G(-2, PiG - 2), G(-2, 2 - PiG) >>
\* bboxFromGeoLoopTransmeridian: the six-vertex loop across the antimeridian.
TransHexagon ==
    << G(2, 2 - PiG), G(2, PiG - 2), G(1, PiG - 3),
       G(-2, PiG - 2), G(-2, 2 - PiG), G(-1, 3 - PiG) >>
\* A loop east of the prime meridian that ends short of the antimeridian.
EastRect == Rect(-2, 2, PiG - 3, PiG - 1)

\* geoLoopInsidePolygon / geoLoopIntersectsPolygon: the plain square.
PlainSquare == [geoloop |-> Rect(0, 4, 0, 4), holes |-> << >>]
\* geoLoopInsidePolygonWithHole: a square with one hole in its middle.
HoleSquare == [geoloop |-> Rect(0, 6, 0, 6), holes |-> << Rect(2, 4, 2, 4) >>]
\* geoLoopIntersectsPolygonWithHoles: two holes side by side.
TwoHoles ==
    [geoloop |-> Rect(0, 5, 0, 9),
     holes |-> << Rect(1, 4, 1, 4), Rect(1, 4, 5, 8) >>]
NonConvex == [geoloop |-> NonConvexLoop, holes |-> << >>]
\* A polygon across the antimeridian whose hole crosses it too.
TransHole ==
    [geoloop |-> Rect(0, 5, PiG - 3, PiG + 3),
     holes |-> << Rect(1, 3, PiG - 1, PiG + 1) >>]

\* Whether a loop lies in the hemisphere centred on the antimeridian, where
\* the plane of its geometry is the one with longitudes unwrapped to 0..2 pi.
NearAntimeridian(loop) == \A i \in 1..Len(loop) : 2 * Abs(loop[i].lng) > M_PI

\* Longitude of a point in the plane of a loop's geometry.
PlaneLng(loop, lng) == IF NearAntimeridian(loop) /\ lng < 0 THEN lng + M_2PI ELSE lng

\* Extent of a loop in grid units, in its plane.
SetMin(S) == CHOOSE x \in S : \A y \in S : x <= y
SetMax(S) == CHOOSE x \in S : \A y \in S : x >= y
GridLats(loop) == { loop[i].lat \div Scale : i \in 1..Len(loop) }
GridLngs(loop) == { PlaneLng(loop, loop[i].lng) \div Scale : i \in 1..Len(loop) }

\* How far beyond a fixture's extent the query points and candidates reach.
Margin == 1

WindowLats(loop) == (SetMin(GridLats(loop)) - Margin)..(SetMax(GridLats(loop)) + Margin)
WindowLngs(loop) == (SetMin(GridLngs(loop)) - Margin)..(SetMax(GridLngs(loop)) + Margin)

\* The query points of a loop: the grid points of its window.
Points(loop) ==
    { G(la, WrapLng(ln)) : la \in WindowLats(loop), ln \in WindowLngs(loop) }

\* The candidate loops tried against a polygon: every grid rectangle and
\* every two-vertex and one-vertex loop of its window, and the empty loop.
Rects(loop) ==
    { Rect(la1, la2, ln1, ln2) :
        la1 \in WindowLats(loop), la2 \in WindowLats(loop),
        ln1 \in WindowLngs(loop), ln2 \in WindowLngs(loop) }
Candidates(loop) ==
    { r \in Rects(loop) : r[1].lat < r[3].lat /\ PlaneLng(loop, r[1].lng) < PlaneLng(loop, r[3].lng) }
    \cup { << p, q >> : p \in Points(loop), q \in Points(loop) }
    \cup { << p >> : p \in Points(loop) }
    \cup { << >> }

(***************************************************************************)
(* The state: a polygon, the bounding boxes its caller holds for it, the   *)
(* candidate loop (or query points) under test, and the last call made     *)
(* with its result.  root is a linked multi-polygon container, a sequence  *)
(* of polygons that are sequences of loop objects, and built is the        *)
(* container as it was handed to normalizeMultiPolygon.                    *)
(***************************************************************************)
VARIABLES geoPolygon, bboxes, loop, pc, op, result, root, built

vars == << geoPolygon, bboxes, loop, pc, op, result, root, built >>

\* calloc(sizeof(BBox), numHoles + 1)
AllocBBoxes(polygon) == [k \in 1..(numHoles(polygon) + 1) |-> ZeroBBox]

InitWith(polygons) ==
    /\ geoPolygon \in polygons
    /\ bboxes = AllocBBoxes(geoPolygon)
    /\ loop \in Candidates(geoPolygon.geoloop)
    /\ pc = "alloc"
    /\ op = "none"
    /\ result = FALSE
    /\ root = << >>
    /\ built = << >>

BboxesFromGeoPolygon ==
    /\ pc = "alloc"
    /\ bboxes' = bboxesFromGeoPolygon(geoPolygon)
    /\ pc' = "boxed"
    /\ op' = "none"
    /\ result' = FALSE
    /\ UNCHANGED << geoPolygon, loop, root, built >>

\* pointInsidePolygon on the first vertex of the loop under test.
PointInsidePolygon ==
    /\ Len(loop) > 0
    /\ op' = "pointInsidePolygon"
    /\ result' = pointInsidePolygon(geoPolygon, bboxes, loop[1])
    /\ UNCHANGED << geoPolygon, bboxes, loop, pc, root, built >>

GeoLoopInsidePolygon ==
    /\ op' = "geoLoopInsidePolygon"
    /\ result' = geoLoopInsidePolygon(geoPolygon, bboxes, loop)
    /\ UNCHANGED << geoPolygon, bboxes, loop, pc, root, built >>

GeoLoopIntersectsPolygon ==
    /\ op' = "geoLoopIntersectsPolygon"
    /\ result' = geoLoopIntersectsPolygon(geoPolygon, bboxes, loop)
    /\ UNCHANGED << geoPolygon, bboxes, loop, pc, root, built >>

Init == InitWith({PlainSquare, HoleSquare, TwoHoles, NonConvex, TransHole})

Next ==
    \/ BboxesFromGeoPolygon
    \/ PointInsidePolygon
    \/ GeoLoopInsidePolygon
    \/ GeoLoopIntersectsPolygon

Spec == Init /\ [][Next]_vars

(***************************************************************************)
(* The loop-level calls: one loop with its bounding box, and a pair of     *)
(* query points p0 = loop[1], p1 = loop[2].                                *)
(***************************************************************************)
InitLoop ==
    /\ \E l \in {CornerSquare, ExtraTriangle, TouchTriangle, NonConvexLoop,
                 TransRect, TransHexagon, EastRect} :
          geoPolygon = [geoloop |-> l, holes |-> << >>]
    /\ bboxes = << ZeroBBox >>
    /\ loop \in { << p, q >> : p \in Points(geoPolygon.geoloop),
                                q \in Points(geoPolygon.geoloop) }
    /\ pc = "alloc"
    /\ op = "none"
    /\ result = FALSE
    /\ root = << >>
    /\ built = << >>

BboxFromGeoLoop ==
    /\ pc = "alloc"
    /\ bboxes' = << bboxFromGeoLoop(geoPolygon.geoloop) >>
    /\ pc' = "boxed"
    /\ op' = "none"
    /\ result' = FALSE
    /\ UNCHANGED << geoPolygon, loop, root, built >>

PointInsideGeoLoop ==
    /\ pc = "boxed"
    /\ op' = "pointInsideGeoLoop"
    /\ result' = pointInsideGeoLoop(geoPolygon.geoloop, bboxes[1], loop[1])
    /\ UNCHANGED << geoPolygon, bboxes, loop, pc, root, built >>

SegmentIntersectsGeoLoop ==
    /\ pc = "boxed"
    /\ op' = "segmentIntersectsGeoLoop"
    /\ result' = segmentIntersectsGeoLoop(geoPolygon.geoloop, bboxes[1], loop[1], loop[2])
    /\ UNCHANGED << geoPolygon, bboxes, loop, pc, root, built >>

NextLoop ==
    \/ BboxFromGeoLoop
    \/ PointInsideGeoLoop
    \/ SegmentIntersectsGeoLoop

SpecLoop == InitLoop /\ [][NextLoop]_vars

(***************************************************************************)
(* pointInside on rings: one loop with its bounding box and one query      *)
(* point, loop[1].  SlantTriangle has a slanted edge through grid points   *)
(* and a vertex whose longitude is that of the edge's midpoint.            *)
(***************************************************************************)
SlantTriangle == << G(0, 0), G(4, 4), G(4, 2) >>

InitRing ==
    /\ \E l \in {SlantTriangle, TouchTriangle, NonConvexLoop, TransRect} :
          geoPolygon = [geoloop |-> l, holes |-> << >>]
    /\ bboxes = << ZeroBBox >>
    /\ loop \in { << p >> : p \in Points(geoPolygon.geoloop) }
    /\ pc = "alloc"
    /\ op = "none"
    /\ result = FALSE
    /\ root = << >>
    /\ built = << >>

NextRing ==
    \/ BboxFromGeoLoop
    \/ PointInsideGeoLoop

SpecRing == InitRing /\ [][NextRing]_vars

(***************************************************************************)
(* segmentIntersects on segments between grid points and points at, or     *)
(* within the coincidence threshold of, a loop vertex: p0 = loop[1],       *)
(* p1 = loop[2].                                                           *)
(***************************************************************************)
\* The unit square listed from its second vertex, so that the edges at the
\* vertex {0,0} come last.
CornerSquareFromNorth == << G(4, 0), G(4, 4), G(0, 4), G(0, 0) >>

\* The points that geoAlmostEqualThreshold(.., DBL_EPSILON) takes for p.
Near(p) ==
    { LatLng(p.lat + dlat, p.lng + dlng) :
        dlat \in (1 - DBL_EPSILON)..(DBL_EPSILON - 1),
        dlng \in (1 - DBL_EPSILON)..(DBL_EPSILON - 1) }
NearVertices(l) == UNION { Near(l[k]) : k \in 1..Len(l) }

InitNear ==
    /\ \E l \in {CornerSquare, CornerSquareFromNorth, TouchTriangle} :
          geoPolygon = [geoloop |-> l, holes |-> << >>]
    /\ bboxes = << ZeroBBox >>
    /\ loop \in { << p, q >> :
                    p \in Points(geoPolygon.geoloop) \cup NearVertices(geoPolygon.geoloop),
                    q \in Points(geoPolygon.geoloop) \cup NearVertices(geoPolygon.geoloop) }
    /\ pc = "alloc"
    /\ op = "none"
    /\ result = FALSE
    /\ root = << >>
    /\ built = << >>

NextNear ==
    \/ BboxFromGeoLoop
    \/ SegmentIntersectsGeoLoop

SpecNear == InitNear /\ [][NextNear]_vars

(***************************************************************************)
(* The calls that take a loop alone: bboxFrom and isClockwise, on every    *)
(* loop of up to MaxVerts vertices over a few latitudes and the longitudes *)
(* around 0 and around the antimeridian, and on the loops of the tests.    *)
(***************************************************************************)
\* The longest loop enumerated.
MaxVerts == 3

ShapeLats == {-1, 1, 2}
ShapeLngs == {-PiG, 1 - PiG, -1, 0, 1, PiG - 1, PiG}
ShapePoints == { G(la, ln) : la \in ShapeLats, ln \in ShapeLngs }

\* isClockwiseGeoLoop: {0,0}, {0.1,0.1}, {0,0.1}; 0.1 is 1 unit.
ClockwiseTriangle == << G(0, 0), G(1, 1), G(0, 1) >>
\* isClockwiseGeoLoopTransmeridian: lats +-0.4, lngs pi-0.1 and -pi+0.1.
ClockwiseTransRect ==
    << G(4, PiG - 1), G(4, 1 - PiG), G(-4, 1 - PiG), G(-4, PiG - 1) >>

ShapeLoops ==
    UNION { [1..n -> ShapePoints] : n \in 0..MaxVerts }
    \cup { CornerSquare, NonConvexLoop, TransRect, TransHexagon,
           ClockwiseTriangle, ClockwiseTransRect }

InitShape ==
    /\ \E l \in ShapeLoops : geoPolygon = [geoloop |-> l, holes |-> << >>]
    /\ bboxes = << ZeroBBox >>
    /\ loop = << >>
    /\ pc = "alloc"
    /\ op = "none"
    /\ result = FALSE
    /\ root = << >>
    /\ built = << >>

IsClockwiseGeoLoop ==
    /\ op' = "isClockwise"
    /\ result' = isClockwiseGeoLoop(geoPolygon.geoloop)
    /\ UNCHANGED << geoPolygon, bboxes, loop, pc, root, built >>

NextShape ==
    \/ BboxFromGeoLoop
    \/ IsClockwiseGeoLoop

SpecShape == InitShape /\ [][NextShape]_vars

(***************************************************************************)
(* The multi-polygon normalizer (linkedGeo.c).  A container is a sequence  *)
(* of polygons, the root node first; a polygon is the sequence of its loop *)
(* objects; a loop object is [id, verts], id being the object's identity.  *)
(***************************************************************************)
E_SUCCESS == "E_SUCCESS"
E_FAILED == "E_FAILED"

countLinkedPolygons(polygon) == Len(polygon)
countLinkedLoops(polygon) == Len(polygon)

\* Every loop object of a container, in order.
RECURSIVE LoopsOf(_)
LoopsOf(polygon) ==
    IF polygon = << >> THEN << >> ELSE Head(polygon) \o LoopsOf(Tail(polygon))

\* "Is the hole's loop inside this outer loop's implied single-loop
\* polygon": the region-containment test of the polygon layer.
loopInsideLoop(outer, inner) ==
    geoLoopInsidePolygon([geoloop |-> outer.verts, holes |-> << >>],
                         << bboxFromGeoLoop(outer.verts) >>, inner.verts)

\* The winding of every loop of a bag, and which loops of the bag lie inside
\* which: inside[j][k] is whether loop k is inside loop j.
windingsOf(bag) == [k \in 1..Len(bag) |-> isClockwiseGeoLoop(bag[k].verts)]
containmentsOf(bag) ==
    [j \in 1..Len(bag) |-> [k \in 1..Len(bag) |-> loopInsideLoop(bag[j], bag[k])]]

\* The positions in the bag of the loops of one winding, in bag order.
RECURSIVE positionsFrom(_, _, _)
positionsFrom(clockwise, wanted, i) ==
    IF i > Len(clockwise) THEN << >>
    ELSE IF clockwise[i] = wanted
    THEN << i >> \o positionsFrom(clockwise, wanted, i + 1)
    ELSE positionsFrom(clockwise, wanted, i + 1)

\* The choice of the first outer candidate that contains the hole.
findPolygonForHoleFirstMatch(inside, outers, hole) ==
    LET matches == { k \in 1..Len(outers) : inside[outers[k]][hole] }
    IN  IF matches = {} THEN 0 ELSE SetMin(matches)

\* The outer candidate a hole goes to: among the candidates that contain it
\* the most tightly enclosing one, that is the one inside the most other
\* matches (the first such in candidate order); 0 when none contains it.
\* outers and hole are positions in the bag.
findPolygonForHole(inside, outers, hole) ==
    LET matches == { k \in 1..Len(outers) : inside[outers[k]][hole] }
        depth(k) == Cardinality({ j \in matches \ {k} :
                                    inside[outers[j]][outers[k]] })
        deepest == { k \in matches : \A j \in matches : depth(k) >= depth(j) }
    IN  IF matches = {} THEN 0 ELSE SetMin(deepest)

\* The assignment of the holes from the i-th on to the polygons made so
\* far; it stops at the first hole that no outer candidate contains.
RECURSIVE assignHolesFrom(_, _, _, _, _, _)
assignHolesFrom(bag, inside, outers, holes, i, polygons) ==
    IF i > Len(holes) THEN [ok |-> TRUE, polygons |-> polygons]
    ELSE
      LET k == findPolygonForHole(inside, outers, holes[i])
      IN  IF k = 0 THEN [ok |-> FALSE, polygons |-> polygons]
          ELSE assignHolesFrom(bag, inside, outers, holes, i + 1,
                 [polygons EXCEPT ![k] = Append(@, bag[holes[i]])])

\* Steps 2 and 3 of normalizeMultiPolygon on a bag whose windings and
\* containments are known.
normalizeBag(bag, clockwise, inside) ==
    LET outers == positionsFrom(clockwise, FALSE, 1)
        holes == positionsFrom(clockwise, TRUE, 1)
        made == assignHolesFrom(bag, inside, outers, holes, 1,
                                [k \in 1..Len(outers) |-> << bag[outers[k]] >>])
    IN  IF Len(outers) = 0 THEN [err |-> E_FAILED, root |-> << << >> >>]
        ELSE [err |-> IF made.ok THEN E_SUCCESS ELSE E_FAILED,
              root |-> made.polygons]

\* normalizeMultiPolygon without the test for a container that already has
\* more than one polygon: the loops of all its polygons are taken as the bag.
normalizeMultiPolygonOfAnyRoot(polygon) ==
    normalizeBag(LoopsOf(polygon), windingsOf(LoopsOf(polygon)),
                 containmentsOf(LoopsOf(polygon)))

\* normalizeMultiPolygon: the error code and the container it leaves.
\*   1. more than one polygon in the container: failure, nothing changed;
\*   2. the loops are partitioned by winding order, clockwise loops being
\*      holes; with no outer candidate: failure, and the container is left
\*      with one polygon of no loops;
\*   3. one polygon per outer candidate in the order met, each hole appended
\*      to the polygon of its tightest enclosing candidate; a hole that no
\*      candidate contains: failure.
normalizeMultiPolygon(polygon) ==
    IF countLinkedPolygons(polygon) > 1
    THEN [err |-> E_FAILED, root |-> polygon]
    ELSE normalizeBag(polygon[1], windingsOf(polygon[1]), containmentsOf(polygon[1]))

\* normalizeMultiPolygonNestedDonuts: squares of half-width 0.2, 0.1, 0.6
\* and 0.5 about the origin; 0.1 is 1 unit.
DonutOuter == << G(2, 2), G(2, -2), G(-2, -2), G(-2, 2) >>
DonutInner == << G(1, 1), G(-1, 1), G(-1, -1), G(1, -1) >>
DonutOuterBig == << G(6, 6), G(6, -6), G(-6, -6), G(-6, 6) >>
DonutInnerBig == << G(5, 5), G(-5, 5), G(-5, -5), G(5, -5) >>
\* normalizeMultiPolygonTwoOuterLoops: the second triangle {2,2},{2,3},{3,3},
\* set apart from the squares.
FarOuter == << G(8, 8), G(8, 9), G(9, 9) >>
\* The rectangle of isClockwiseGeoLoopTransmeridian, listed from its second
\* vertex so that its first edge does not cross the antimeridian.
TransClockwise ==
    << G(4, 1 - PiG), G(-4, 1 - PiG), G(-4, PiG - 1), G(4, PiG - 1) >>

BagLoops ==
    { DonutOuter, DonutInner, DonutOuterBig, DonutInnerBig, FarOuter,
      TransClockwise }

\* The most loops and the most polygon nodes a caller puts in a container.
MaxLoops == 4
MaxPolygons == 2

InitNormalize ==
    /\ geoPolygon = [geoloop |-> << >>, holes |-> << >>]
    /\ bboxes = << ZeroBBox >>
    /\ loop = << >>
    /\ pc = "building"
    /\ op = "none"
    /\ result = FALSE
    /\ root = << << >> >>
    /\ built = << >>

\* addLinkedLoop on the last polygon of the container, with a new loop.
AddLinkedLoop ==
    /\ pc = "building"
    /\ Len(LoopsOf(root)) < MaxLoops
    /\ \E verts \in BagLoops :
          root' = [root EXCEPT ![Len(root)] =
                     Append(@, [id |-> Len(LoopsOf(root)) + 1, verts |-> verts])]
    /\ UNCHANGED << geoPolygon, bboxes, loop, pc, op, result, built >>

AddNewLinkedPolygon ==
    /\ pc = "building"
    /\ countLinkedPolygons(root) < MaxPolygons
    /\ root' = Append(root, << >>)
    /\ UNCHANGED << geoPolygon, bboxes, loop, pc, op, result, built >>

NormalizeMultiPolygon ==
    /\ pc = "building"
    /\ \E r \in { normalizeMultiPolygon(root) } :
          /\ root' = r.root
          /\ result' = r.err
    /\ built' = root
    /\ op' = "normalizeMultiPolygon"
    /\ pc' = "normalized"
    /\ UNCHANGED << geoPolygon, bboxes, loop >>

NextNormalize ==
    \/ AddLinkedLoop
    \/ AddNewLinkedPolygon
    \/ NormalizeMultiPolygon

SpecNormalize == InitNormalize /\ [][NextNormalize]_vars

(***************************************************************************)
(* Plane geometry, exact, for stating what the predicates are meant to     *)
(* compute.  frame is the loop whose plane the points are read in.         *)
(***************************************************************************)
Vec(frame, p) == [x |-> PlaneLng(frame, p.lng), y |-> p.lat]

Cross(o, a, b) == (a.x - o.x) * (b.y - o.y) - (a.y - o.y) * (b.x - o.x)

Sign(x) == IF x > 0 THEN 1 ELSE IF x < 0 THEN -1 ELSE 0

\* p lies on the closed segment a-b.
OnSegment(a, b, p) ==
    /\ Cross(a, b, p) = 0
    /\ fmin(a.x, b.x) <= p.x /\ p.x <= fmax(a.x, b.x)
    /\ fmin(a.y, b.y) <= p.y /\ p.y <= fmax(a.y, b.y)

\* The open segments p-q and a-b cross at a single interior point.
ProperCrossing(p, q, a, b) ==
    /\ Sign(Cross(a, b, p)) * Sign(Cross(a, b, q)) = -1
    /\ Sign(Cross(p, q, a)) * Sign(Cross(p, q, b)) = -1

\* The closed segments p-q and a-b share at least one point.
SegmentsMeet(p, q, a, b) ==
    \/ ProperCrossing(p, q, a, b)
    \/ OnSegment(a, b, p) \/ OnSegment(a, b, q)
    \/ OnSegment(p, q, a) \/ OnSegment(p, q, b)

EdgeIndices(l) == 1..Len(l)
EdgeFrom(frame, l, i) == Vec(frame, l[i])
EdgeTo(frame, l, i) == Vec(frame, l[(i % Len(l)) + 1])

\* p is on the boundary of loop l.
OnBoundary(frame, l, p) ==
    \E i \in EdgeIndices(l) :
       OnSegment(EdgeFrom(frame, l, i), EdgeTo(frame, l, i), Vec(frame, p))

\* p is strictly inside loop l: off its boundary, and a ray from p towards
\* growing x crosses the boundary an odd number of times.
Interior(frame, l, p) ==
    LET v == Vec(frame, p)
        hits == { i \in EdgeIndices(l) :
                    LET a == EdgeFrom(frame, l, i)
                        b == EdgeTo(frame, l, i)
                        lo == IF a.y <= b.y THEN a ELSE b
                        hi == IF a.y <= b.y THEN b ELSE a
                    IN  lo.y <= v.y /\ v.y < hi.y /\ Cross(lo, hi, v) > 0 }
    IN  ~OnBoundary(frame, l, p) /\ Cardinality(hits) % 2 = 1

\* The segment p-q shares a point with some edge of loop l.
SegmentMeetsLoop(frame, l, p, q) ==
    \E i \in EdgeIndices(l) :
       SegmentsMeet(Vec(frame, p), Vec(frame, q),
                    EdgeFrom(frame, l, i), EdgeTo(frame, l, i))

\* Some edge of the candidate c shares a point with some edge of loop l.
LoopMeetsLoop(frame, l, c) ==
    \E k \in EdgeIndices(c) : SegmentMeetsLoop(frame, l, c[k], c[(k % Len(c)) + 1])

\* The loops of a polygon, the outer loop first.
PolygonLoops(polygon) == << polygon.geoloop >> \o polygon.holes

(***************************************************************************)
(* Claims.                                                                 *)
(***************************************************************************)
Outer == geoPolygon.geoloop
Boxed == pc = "boxed"

\* C1: pointInsidePolygon(polygon, bboxes, c) is true exactly when c is
\* inside the outer loop (with bboxes[0]) and inside no hole i (with
\* bboxes[i+1]), for computed and for zeroed bounding boxes alike.
C1_PointInsidePolygonIsOuterMinusHoles ==
    op = "pointInsidePolygon" =>
        result = (/\ pointInsideGeoLoop(Outer, bboxes[1], loop[1])
                  /\ \A i \in 1..numHoles(geoPolygon) :
                        ~pointInsideGeoLoop(geoPolygon.holes[i], bboxes[i + 1], loop[1]))

\* C1 witness: a point inside the outer loop and inside the second hole only
\* has been tested and found outside the polygon.
C1_Witness ==
    /\ op = "pointInsidePolygon"
    /\ Boxed
    /\ numHoles(geoPolygon) = 2
    /\ pointInsideGeoLoop(Outer, bboxes[1], loop[1])
    /\ ~pointInsideGeoLoop(geoPolygon.holes[1], bboxes[2], loop[1])
    /\ pointInsideGeoLoop(geoPolygon.holes[2], bboxes[3], loop[1])
    /\ result = FALSE

\* Every vertex of the candidate is strictly inside hole j (1-based) and no
\* edge of the candidate shares a point with any loop of the polygon.
InsideHole(j) ==
    /\ Len(loop) > 0
    /\ \A k \in 1..Len(loop) : Interior(Outer, geoPolygon.holes[j], loop[k])
    /\ \A n \in 1..(numHoles(geoPolygon) + 1) :
          ~LoopMeetsLoop(Outer, PolygonLoops(geoPolygon)[n], loop)

\* C2: a candidate that lies entirely inside one hole of the polygon, the
\* first or any other, does not intersect the polygon.
C2_LoopInsideAnyHoleDoesNotIntersect ==
    (/\ Boxed
     /\ op = "geoLoopIntersectsPolygon"
     /\ \E j \in 1..numHoles(geoPolygon) : InsideHole(j))
    => result = FALSE

\* One endpoint of the query segment is inside the loop and the other is
\* not, and neither is on the loop's boundary.
OneEndpointInside ==
    /\ ~OnBoundary(Outer, Outer, loop[1])
    /\ ~OnBoundary(Outer, Outer, loop[2])
    /\ pointInsideGeoLoop(Outer, bboxes[1], loop[1])
         # pointInsideGeoLoop(Outer, bboxes[1], loop[2])

\* C3: a segment with exactly one endpoint inside a non-empty loop, neither
\* endpoint on the boundary, intersects the loop, whether or not the loop's
\* bounding box is transmeridian.
C3_SegmentInsideToOutsideIntersects ==
    (Boxed /\ op = "segmentIntersectsGeoLoop" /\ OneEndpointInside)
    => result = TRUE

\* 1.0 of the corner-case square, and its corner points.
One == 4 * Scale

OnCornerSquare == Boxed /\ op = "pointInsideGeoLoop" /\ Outer = CornerSquare

\* C4: on the square (0,0),(1,0),(1,1),(0,1) pointInside holds on the south
\* edge, the east edge and the south-east corner, and fails on the west
\* edge, the north edge and the other three corners.
C4_SquareSouthEastBias ==
    OnCornerSquare =>
        LET c == loop[1]
        IN  /\ (c.lat = 0 /\ 0 < c.lng /\ c.lng < One) => result
            /\ (c.lng = One /\ 0 < c.lat /\ c.lat < One) => result
            /\ (c.lat = 0 /\ c.lng = One) => result
            /\ (c.lng = 0 /\ 0 <= c.lat /\ c.lat <= One) => ~result
            /\ (c.lat = One /\ 0 <= c.lng /\ c.lng <= One) => ~result

\* C4 witness: a point of the east edge has been found inside.
C4_Witness ==
    /\ OnCornerSquare
    /\ loop[1].lng = One /\ 0 < loop[1].lat /\ loop[1].lat < One
    /\ result = TRUE

\* C5 as stated: with points read as (latitude, longitude), (0,0), (0,1) and
\* (1,1) are excluded and (1,0) is included.
C5_CornersAsStated ==
    OnCornerSquare =>
        /\ loop[1] = LatLng(0, 0) => ~result
        /\ loop[1] = LatLng(0, One) => ~result
        /\ loop[1] = LatLng(One, One) => ~result
        /\ loop[1] = LatLng(One, 0) => result

\* C5 amended: with points read as (latitude, longitude), (0,0), (1,0) and
\* (1,1) are excluded and (0,1), the south-east corner, is included.
C5_CornersSouthEastIncluded ==
    OnCornerSquare =>
        /\ loop[1] = LatLng(0, 0) => ~result
        /\ loop[1] = LatLng(One, 0) => ~result
        /\ loop[1] = LatLng(One, One) => ~result
        /\ loop[1] = LatLng(0, One) => result

\* C5 witness: the corner at latitude 0, longitude 1 has been found inside.
C5_Witness == OnCornerSquare /\ loop[1] = LatLng(0, One) /\ result = TRUE

\* A loop or point with every negative longitude shifted by 2 pi.
ShiftPoint(p) == LatLng(p.lat, IF p.lng < 0 THEN p.lng + M_2PI ELSE p.lng)
ShiftLoop(l) == [i \in 1..Len(l) |-> ShiftPoint(l[i])]

\* The parity test with no normalization at all.
PlainParity(l, c) == pointInsideFrom(l, FALSE, 1, c.lat, c.lng, FALSE)

OnTransmeridian ==
    Boxed /\ op = "pointInsideGeoLoop" /\ bboxIsTransmeridian(bboxes[1])

StrictlyInPolygon(x) ==
    /\ Interior(Outer, Outer, x)
    /\ \A j \in 1..numHoles(geoPolygon) :
          /\ ~Interior(Outer, geoPolygon.holes[j], x)
          /\ ~OnBoundary(Outer, geoPolygon.holes[j], x)

\* x is in the closed region bounded by the candidate loop.
CandidateCovers(x) ==
    /\ Len(loop) > 0
    /\ \/ OnBoundary(Outer, loop, x)
       \/ Len(loop) > 2 /\ Interior(Outer, loop, x)

\* Some grid point lies in the polygon's region and in the candidate's.
RegionsShareGridPoint ==
    \E x \in Points(Outer) : StrictlyInPolygon(x) /\ CandidateCovers(x)

\* The candidate lies wholly on one side of the outer loop's extent.
BesideOuter ==
    LET xs == { Vec(Outer, Outer[i]).x : i \in 1..Len(Outer) }
        ys == { Outer[i].lat : i \in 1..Len(Outer) }
        cx == { Vec(Outer, loop[k]).x : k \in 1..Len(loop) }
        cy == { loop[k].lat : k \in 1..Len(loop) }
    IN  /\ Len(loop) > 0
        /\ \/ \A x \in cx : x > SetMax(xs)
           \/ \A x \in cx : x < SetMin(xs)
           \/ \A y \in cy : y > SetMax(ys)
           \/ \A y \in cy : y < SetMin(ys)

\* The candidate's region and the polygon's region share no point: the
\* candidate is beside the outer loop or wholly inside one hole.
RegionsDisjoint ==
    \/ BesideOuter
    \/ \E j \in 1..numHoles(geoPolygon) : InsideHole(j)

\* C7: geoLoopIntersectsPolygon is true whenever the candidate's region and
\* the polygon's region share a point, also when no candidate vertex is in
\* the polygon, and false when they share none.
C7_IntersectsIffRegionsOverlap ==
    (Boxed /\ op = "geoLoopIntersectsPolygon") =>
        /\ RegionsShareGridPoint => result = TRUE
        /\ RegionsDisjoint => result = FALSE

\* The first hole (0-based, in hole order) that contains vertex k of the
\* candidate, -1 when the vertex is in no hole.
HolesContaining(k) ==
    { j \in 0..(numHoles(geoPolygon) - 1) :
        pointInsideGeoLoop(geoPolygon.holes[j + 1], bboxes[j + 2], loop[k]) }
FirstHoleOf(k) ==
    IF pointInsideGeoLoop(Outer, bboxes[1], loop[k]) /\ HolesContaining(k) # {}
    THEN SetMin(HolesContaining(k))
    ELSE -1

VertsInTwoHoles ==
    \E a \in 1..Len(loop), b \in 1..Len(loop) :
       /\ FirstHoleOf(a) >= 0
       /\ FirstHoleOf(b) >= 0
       /\ FirstHoleOf(a) # FirstHoleOf(b)

\* C8: geoLoopIntersectsPolygon is true for every candidate with vertices in
\* two different holes, in whichever order they come.
C8_VerticesInTwoHolesIntersect ==
    (op = "geoLoopIntersectsPolygon" /\ VertsInTwoHoles) => result = TRUE

\* C8 witness: the first vertex is in the second hole, a later one in the
\* first hole, no vertex is in the polygon's region, and the call was true.
C8_Witness ==
    /\ op = "geoLoopIntersectsPolygon"
    /\ Len(loop) > 1
    /\ FirstHoleOf(1) = 1
    /\ \E b \in 2..Len(loop) : FirstHoleOf(b) = 0
    /\ \A k \in 1..Len(loop) : FirstHoleOf(k) >= 0
    /\ result = TRUE

\* Some candidate edge crosses an edge of loop l at an interior point of both.
LoopCrossesLoop(frame, l, c) ==
    \E k \in EdgeIndices(c), i \in EdgeIndices(l) :
       ProperCrossing(Vec(frame, c[k]), Vec(frame, c[(k % Len(c)) + 1]),
                      EdgeFrom(frame, l, i), EdgeTo(frame, l, i))

\* Some point of the candidate's boundary or enclosed region is inside hole
\* h: a candidate vertex is strictly inside it, a candidate of more than 2
\* vertices has a vertex of it strictly inside, or a candidate edge crosses
\* its boundary.
ReachesIntoHole(h) ==
    \/ \E k \in 1..Len(loop) : Interior(Outer, h, loop[k])
    \/ Len(loop) > 2 /\ \E i \in 1..Len(h) : Interior(Outer, loop, h[i])
    \/ Len(loop) > 1 /\ LoopCrossesLoop(Outer, h, loop)

\* C9: geoLoopInsidePolygon is false whenever some point of the candidate's
\* boundary or enclosed region is inside a hole of the polygon.
C9_InsideRejectsLoopReachingIntoHole ==
    (/\ Boxed
     /\ op = "geoLoopInsidePolygon"
     /\ \E j \in 1..numHoles(geoPolygon) : ReachesIntoHole(geoPolygon.holes[j]))
    => result = FALSE

\* Some edge of the candidate, the closing edge included, shares a point
\* with an edge of the outer loop or of a hole.
EdgeMeetsPolygon ==
    /\ Len(loop) > 1
    /\ \E n \in 1..(numHoles(geoPolygon) + 1) :
          LoopMeetsLoop(Outer, PolygonLoops(geoPolygon)[n], loop)

\* C10: geoLoopInsidePolygon is false whenever some edge of the candidate
\* intersects an edge of the outer loop or of a hole.
C10_InsideRejectsLoopMeetingAnEdge ==
    (Boxed /\ op = "geoLoopInsidePolygon" /\ EdgeMeetsPolygon) => result = FALSE

\* C11: geoLoopInsidePolygon is false for a loop of 0 vertices, and for a
\* loop of exactly 1 vertex it is true exactly when pointInsidePolygon holds
\* for that vertex, whatever the hole-vertex and edge checks would say.
C11_DegenerateLoopsInside ==
    op = "geoLoopInsidePolygon" =>
        /\ Len(loop) = 0 => result = FALSE
        /\ Len(loop) = 1 =>
              result = pointInsidePolygon(geoPolygon, bboxes, loop[1])

\* C11 witness: a single vertex on an edge of the outer loop, where the edge
\* check would have found an intersection, has been found inside.
C11_Witness ==
    /\ op = "geoLoopInsidePolygon"
    /\ Boxed
    /\ Len(loop) = 1
    /\ OnBoundary(Outer, Outer, loop[1])
    /\ loopSegmentIntersects(geoPolygon, bboxes, loop)
    /\ result = TRUE

\* The loop-level call was made with a plain (not transmeridian) box and a
\* query segment spanning no more than pi in longitude.
OnPlainFrame ==
    /\ Boxed
    /\ op = "segmentIntersectsGeoLoop"
    /\ ~bboxIsTransmeridian(bboxes[1])
    /\ Abs(loop[1].lng - loop[2].lng) <= M_PI

\* Some loop vertex is collinear with the query segment and outside it,
\* and the segment shares no point with the loop.
CollinearButApart ==
    /\ loop[1] # loop[2]
    /\ \E i \in 1..Len(Outer) :
          Cross(Vec(Outer, loop[1]), Vec(Outer, loop[2]), Vec(Outer, Outer[i])) = 0
    /\ ~SegmentMeetsLoop(Outer, Outer, loop[1], loop[2])

\* C12: in a non-transmeridian frame segmentIntersects(L, bboxFrom(L), p0,
\* p1) is true exactly when the closed segment p0-p1 shares a point with
\* some edge of L; a loop vertex merely collinear with the segment and
\* outside it does not make it true.
C12_SegmentIntersectsIffSharesPoint ==
    OnPlainFrame =>
        /\ result = SegmentMeetsLoop(Outer, Outer, loop[1], loop[2])
        /\ CollinearButApart => result = FALSE

\* An endpoint of the query segment is within the coincidence threshold of
\* a loop vertex.
EndpointNearVertex ==
    \E e \in 1..2 : \E k \in 1..Len(Outer) :
       geoAlmostEqualThreshold(loop[e], Outer[k], DBL_EPSILON)

\* C12, amended: in a non-transmeridian frame segmentIntersects is true
\* whenever the closed segment p0-p1 shares a point with some edge of L, and
\* false whenever it shares none and neither endpoint is within DBL_EPSILON
\* of a loop vertex; a loop vertex merely collinear with such a segment and
\* outside it does not make it true.
C12_SharesPointUpToThreshold ==
    OnPlainFrame =>
        /\ SegmentMeetsLoop(Outer, Outer, loop[1], loop[2]) => result = TRUE
        /\ ~EndpointNearVertex =>
              result = SegmentMeetsLoop(Outer, Outer, loop[1], loop[2])
        /\ (CollinearButApart /\ ~EndpointNearVertex) => result = FALSE

\* C12 witness for the threshold: a segment that shares no point with the
\* loop and has an endpoint within the threshold of a vertex, not equal to
\* it, has been found to intersect.
C12_WitnessNearVertex ==
    /\ OnPlainFrame
    /\ EndpointNearVertex
    /\ ~SegmentMeetsLoop(Outer, Outer, loop[1], loop[2])
    /\ result = TRUE

\* C12 witness: a query segment with both endpoints off the loop that
\* passes through a loop vertex has been found to intersect.
C12_Witness ==
    /\ OnPlainFrame
    /\ ~OnBoundary(Outer, Outer, loop[1])
    /\ ~OnBoundary(Outer, Outer, loop[2])
    /\ \E i \in 1..Len(Outer) :
          OnSegment(Vec(Outer, loop[1]), Vec(Outer, loop[2]), Vec(Outer, Outer[i]))
    /\ result = TRUE

\* The latitudes and longitudes of the loop under test, and whether some
\* edge of it, the closing edge included, spans more than pi in longitude.
LatsOf(l) == { l[i].lat : i \in 1..Len(l) }
LngsOf(l) == { l[i].lng : i \in 1..Len(l) }
HasWideEdge(l) ==
    \E i \in 1..Len(l) : Abs(l[i].lng - l[(i % Len(l)) + 1].lng) > M_PI

\* C13: for a non-empty loop with an edge whose longitude delta exceeds pi,
\* bboxFrom yields north = max latitude, south = min latitude, west = the
\* minimum positive longitude and east = the maximum negative longitude, so
\* that west > east; with no such edge, west = min longitude <= east = max
\* longitude.
C13_BBoxOfLoop ==
    (Boxed /\ Len(Outer) > 0) =>
        LET box == bboxes[1]
        IN  /\ box.north = SetMax(LatsOf(Outer))
            /\ box.south = SetMin(LatsOf(Outer))
            /\ HasWideEdge(Outer) =>
                  /\ box.west = SetMin({ x \in LngsOf(Outer) : x > 0 })
                  /\ box.east = SetMax({ x \in LngsOf(Outer) : x < 0 })
                  /\ box.west > box.east
            /\ ~HasWideEdge(Outer) =>
                  /\ box.west = SetMin(LngsOf(Outer))
                  /\ box.east = SetMax(LngsOf(Outer))
                  /\ box.west <= box.east

\* C13 witness: the box of a loop with a wide edge and a vertex on the
\* prime meridian has been computed, with west > east.
C13_Witness ==
    /\ Boxed
    /\ HasWideEdge(Outer)
    /\ 0 \in LngsOf(Outer)
    /\ bboxes[1].west > bboxes[1].east

\* The shoelace sum of a loop as it stands: the sum over its edges (a, b),
\* the closing edge included, of (lng_b - lng_a) * (lat_b + lat_a).
RECURSIVE ShoelaceFrom(_, _)
ShoelaceFrom(l, i) ==
    IF i > Len(l) THEN 0
    ELSE (l[(i % Len(l)) + 1].lng - l[i].lng) * (l[(i % Len(l)) + 1].lat + l[i].lat)
         + ShoelaceFrom(l, i + 1)

\* The homogeneous sum: every longitude normalized when the loop has a wide
\* edge, none otherwise.
HomogeneousSum(l) ==
    ShoelaceFrom(IF HasWideEdge(l) THEN ShiftLoop(l) ELSE l, 1)

\* C14: isClockwise is true exactly when the homogeneous shoelace sum is
\* positive, wherever in the loop the transmeridian edge occurs, and the
\* pass over the loop is restarted at most once.
C14_IsClockwiseIsHomogeneousSum ==
    op = "isClockwise" =>
        /\ result = (HomogeneousSum(Outer) > 0)
        /\ isClockwiseNormalized(Outer, FALSE).passes
              = (IF HasWideEdge(Outer) THEN 2 ELSE 1)

\* C14 witness: a loop whose first edge is not wide and whose later edge
\* is, so that a partial sum was discarded, has been found clockwise.
C14_Witness ==
    /\ op = "isClockwise"
    /\ Len(Outer) > 2
    /\ Abs(Outer[1].lng - Outer[2].lng) <= M_PI
    /\ (Outer[2].lng - Outer[1].lng) * (Outer[2].lat + Outer[1].lat) # 0
    /\ HasWideEdge(Outer)
    /\ result = TRUE

\* The loop with its vertices in the opposite order.
ReverseLoop(l) == [i \in 1..Len(l) |-> l[Len(l) + 1 - i]]

\* C15: for every loop whose shoelace sum is not zero, loops across the
\* antimeridian included, isClockwise of the reversed loop is the opposite
\* of isClockwise of the loop.
C15_ReversalFlipsIsClockwise ==
    (op = "isClockwise" /\ HomogeneousSum(Outer) # 0) =>
        isClockwiseGeoLoop(ReverseLoop(Outer)) = ~result

\* C15 witness: a loop across the antimeridian has been found not
\* clockwise while its reversal is clockwise.
C15_Witness ==
    /\ op = "isClockwise"
    /\ HasWideEdge(Outer)
    /\ HomogeneousSum(Outer) # 0
    /\ result = FALSE
    /\ isClockwiseGeoLoop(ReverseLoop(Outer))

\* normalizeMultiPolygon has been called on a container of one polygon
\* holding a flat bag of loops.
NormalizedBag == op = "normalizeMultiPolygon" /\ countLinkedPolygons(built) = 1

\* Winding order by the homogeneous shoelace sum.
Clockwise(l) == HomogeneousSum(l.verts) > 0

\* The loop objects of a container, as a set, and their number.
LoopSet(polygon) == { LoopsOf(polygon)[k] : k \in 1..Len(LoopsOf(polygon)) }

\* C16: when normalizeMultiPolygon succeeds on a flat bag of loops, every
\* input loop object is in exactly one output polygon, each output polygon
\* starts with its only counter-clockwise loop, every following loop is
\* clockwise, and there are as many polygons as counter-clockwise input
\* loops.
C16_NormalizedPartitionsTheBag ==
    (NormalizedBag /\ result = E_SUCCESS) =>
        /\ LoopSet(root) = LoopSet(built)
        /\ Len(LoopsOf(root)) = Len(LoopsOf(built))
        /\ \A n \in 1..Len(root) :
              /\ countLinkedLoops(root[n]) >= 1
              /\ ~Clockwise(root[n][1])
              /\ \A k \in 2..Len(root[n]) : Clockwise(root[n][k])
        /\ countLinkedPolygons(root)
              = Cardinality({ l \in LoopSet(built) : ~Clockwise(l) })

\* C16 witness: a bag of four loops has been normalized into two polygons,
\* one of them with a hole.
C16_Witness ==
    /\ NormalizedBag
    /\ result = E_SUCCESS
    /\ Len(LoopsOf(built)) = 4
    /\ countLinkedPolygons(root) = 2
    /\ \E n \in 1..Len(root) : countLinkedLoops(root[n]) > 1

\* The bag handed over holds the four loops of the nested donuts, in some
\* order.
DonutBag ==
    /\ NormalizedBag
    /\ Len(LoopsOf(built)) = 4
    /\ { l.verts : l \in LoopSet(built) }
         = { DonutOuter, DonutInner, DonutOuterBig, DonutInnerBig }

\* The polygons of a container as the sequences of their loops' vertices.
ShapesOf(polygon) ==
    { [k \in 1..Len(polygon[n]) |-> polygon[n][k].verts] : n \in 1..Len(polygon) }

\* C17: each hole goes to the most tightly enclosing outer loop that
\* contains it: the nested donuts, added in any order, normalize into two
\* polygons, each outer loop with its own immediate hole only.
C17_NestedDonutsPairTightly ==
    DonutBag =>
        /\ result = E_SUCCESS
        /\ countLinkedPolygons(root) = 2
        /\ ShapesOf(root) = { << DonutOuterBig, DonutInnerBig >>,
                              << DonutOuter, DonutInner >> }

\* C17 witness: the donuts were added with the big outer ring before the
\* small one and the small hole first, and were normalized with success.
C17_Witness ==
    /\ DonutBag
    /\ built[1][1].verts = DonutInner
    /\ built[1][2].verts = DonutOuterBig
    /\ built[1][4].verts = DonutOuter
    /\ result = E_SUCCESS
    /\ root[2][2].verts = DonutInner

\* C18: normalizeMultiPolygon on a container that already holds more than
\* one polygon fails and changes nothing: the polygons, their loops and
\* their order are as before the call.
C18_AlreadyNormalizedIsNoOp ==
    (op = "normalizeMultiPolygon" /\ countLinkedPolygons(built) > 1) =>
        /\ result = E_FAILED
        /\ root = built

\* C18 witness: a container of two polygons with one outer loop each has
\* been handed over and refused.
C18_Witness ==
    /\ op = "normalizeMultiPolygon"
    /\ countLinkedPolygons(built) = 2
    /\ countLinkedLoops(built[1]) = 1 /\ ~Clockwise(built[1][1])
    /\ countLinkedLoops(built[2]) = 1 /\ ~Clockwise(built[2][1])
    /\ result = E_FAILED

\* Loop inner lies strictly within loop outer in the plane: every vertex
\* is interior and no edges meet.
Encloses(outer, inner) ==
    /\ \A k \in 1..Len(inner) : Interior(outer, outer, inner[k])
    /\ ~LoopMeetsLoop(outer, outer, inner)

\* Some clockwise loop of the bag lies within no counter-clockwise loop of
\* the bag.
HasUnassignedHole ==
    \E h \in LoopSet(built) :
       /\ Clockwise(h)
       /\ \A o \in LoopSet(built) : ~Clockwise(o) => ~Encloses(o.verts, h.verts)

\* C19: on a bag with no counter-clockwise loop normalizeMultiPolygon fails
\* and leaves exactly one polygon holding zero loops; on a bag with a
\* clockwise loop contained in no counter-clockwise loop it fails.
C19_NoOuterLoopsAndUnassignedHoleFail ==
    NormalizedBag =>
        /\ (\A l \in LoopSet(built) : Clockwise(l)) =>
              /\ result = E_FAILED
              /\ countLinkedPolygons(root) = 1
              /\ countLinkedLoops(root[1]) = 0
        /\ HasUnassignedHole => result = E_FAILED

\* C19 witness: a bag of an outer loop and a hole outside it has been
\* refused.
C19_Witness ==
    /\ NormalizedBag
    /\ \E l \in LoopSet(built) : ~Clockwise(l)
    /\ HasUnassignedHole
    /\ result = E_FAILED

\* The region the vertex scan of the call tracked: -1 for the outer loop,
\* j for hole j.
TrackedRegion == vertexScanFrom(geoPolygon, bboxes, loop, 0, -1).holeIndex

\* The tracked region's own bounding box: bboxes[0] for the outer loop,
\* bboxes[j + 1] for hole j.
OwnBBox == bboxes[TrackedRegion + 2]

\* The edge scan as it would run with the tracked region's own box.
EdgeScanWithOwnBBox ==
    edgeScan(regionLoop(geoPolygon, TrackedRegion), OwnBBox, loop)

\* The call reached the edge-scan phase with a hole recorded.
EdgeScanOfHole ==
    /\ op = "geoLoopIntersectsPolygon"
    /\ Len(loop) > 1
    /\ ~vertexScanFrom(geoPolygon, bboxes, loop, 0, -1).returned
    /\ TrackedRegion >= 0

\* C20: in the edge-scan phase of geoLoopIntersectsPolygon the candidate's
\* edges are tested against the tracked region's loop with that same loop's
\* bounding box, so with hole j recorded the box is bboxes[j + 1] and the
\* answer is the one of the scan of hole j with bboxes[j + 1].
C20_EdgeScanUsesOwnBBox ==
    EdgeScanOfHole =>
        /\ regionBBox(bboxes, TrackedRegion) = OwnBBox
        /\ result = EdgeScanWithOwnBBox

\* The answer alone: it is the one the hole's own box gives.
C20_SameAnswer == EdgeScanOfHole => result = EdgeScanWithOwnBBox

\* The vertex scan of the call ended without an early return on a
\* candidate of at least two vertices: the edge phase is reached.
EdgePhaseReached ==
    /\ op = "geoLoopIntersectsPolygon"
    /\ Len(loop) >= 2
    /\ ~vertexScanFrom(geoPolygon, bboxes, loop, 0, -1).returned

\* Vertex k of the candidate is outside the outer loop.
OutsideOuter(k) == ~pointInsideGeoLoop(Outer, bboxes[1], loop[k])

\* C21: whenever the edge phase of geoLoopIntersectsPolygon is reached, all
\* candidate vertices lie in one single region: all outside the outer loop
\* with no hole tracked, or all inside the one tracked hole; never one
\* vertex outside the outer loop and another inside a hole.
C21_EdgePhaseHasOneRegion ==
    EdgePhaseReached =>
        \/ /\ TrackedRegion = -1
           /\ \A k \in 1..Len(loop) : OutsideOuter(k)
        \/ /\ TrackedRegion >= 0
           /\ \A k \in 1..Len(loop) : FirstHoleOf(k) = TrackedRegion

\* The edge phase was reached with one vertex outside the outer loop and
\* another in a hole, and the call answered false.
MixedRegionsAnsweredFalse ==
    /\ Boxed
    /\ EdgePhaseReached
    /\ \E a \in 1..Len(loop), b \in 1..Len(loop) :
          OutsideOuter(a) /\ FirstHoleOf(b) >= 0
    /\ result = FALSE

\* The call of segmentIntersects under test.
SegmentCall == op = "segmentIntersectsGeoLoop"

\* C22: the orientation reuse of segmentIntersects does not change its
\* result: the answer is the one of the same loop with the first endpoint's
\* orientation and its zero-orientation check recomputed on every edge; and
\* the carried orientation, used only after an edge that was not pruned, is
\* the orientation of the current edge's first endpoint.
C22_OrientationReuseIsSound ==
    SegmentCall =>
        /\ result = segmentIntersectsRecomputed(Outer, bboxes[1], loop[1], loop[2])
        /\ carriedOrientationIsCurrentFrom(
               Outer, segmentQuery(bboxes[1], loop[1], loop[2]), 1, 0, FALSE)

\* Edge i of the loop is box-pruned for the segment under test.
Pruned(i) ==
    LET q == segmentQuery(bboxes[1], loop[1], loop[2])
        ax == NORMALIZE_LNG(EdgeA(Outer, i).lng, q.isTransmeridian)
        bx == NORMALIZE_LNG(EdgeB(Outer, i).lng, q.isTransmeridian)
    IN  \/ q.xmax < fmin(ax, bx) \/ fmax(ax, bx) < q.xmin
        \/ q.ymax < fmin(EdgeA(Outer, i).lat, EdgeB(Outer, i).lat)
        \/ fmax(EdgeA(Outer, i).lat, EdgeB(Outer, i).lat) < q.ymin

\* The segment under test meets edge i of the loop.
MeetsEdge(i) ==
    segmentIntersectsGeoLoop(<< EdgeA(Outer, i), EdgeB(Outer, i) >>, bboxes[1],
                             loop[1], loop[2])

\* C22 witness: the segment was not rejected by the loop's box; an edge i
\* was passed without a hit and edge i + 1 entered with the carried
\* orientation; a later edge j was pruned and edge j + 1 entered without a
\* carried orientation; no edge up to j was met, and the answer was true.
C22_Witness ==
    /\ SegmentCall
    /\ ~segmentOutsideBBox(bboxes[1], loop[1], loop[2])
    /\ \E i \in 1..Len(Outer), j \in 1..(Len(Outer) - 1) :
          /\ i + 1 < j
          /\ ~Pruned(i) /\ ~Pruned(i + 1)
          /\ Pruned(j) /\ ~Pruned(j + 1)
          /\ \A k \in 1..j : ~MeetsEdge(k)
    /\ result = TRUE

\* The loop started r vertices later: a cyclic rotation of its vertices.
Rotated(r) ==
    [k \in 1..Len(Outer) |-> Outer[((k - 1 + r) % Len(Outer)) + 1]]

\* C23: the boundary tie-break of pointInside is consistent for a ring: for
\* a loop, its box and a query point (also one exactly on an edge or a
\* vertex) the answer is the same for every cyclic rotation of the loop's
\* vertices.
C23_PointInsideIgnoresStartVertex ==
    (Boxed /\ op = "pointInsideGeoLoop") =>
        \A r \in 1..(Len(Outer) - 1) :
           pointInsideGeoLoop(Rotated(r), bboxes[1], loop[1]) = result

\* The same for query points that are on no edge and no vertex of the loop.
OffBoundary == ~OnBoundary(Outer, Outer, loop[1])
RotationMattersOnlyOnBoundary ==
    (Boxed /\ op = "pointInsideGeoLoop" /\ OffBoundary) =>
        \A r \in 1..(Len(Outer) - 1) :
           pointInsideGeoLoop(Rotated(r), bboxes[1], loop[1]) = result

\* C24: pointInside never computes the interpolation ratio with a zero
\* denominator: an edge whose endpoints have equal latitude is skipped by
\* the straddle test, also when the query latitude is that latitude.
C24_RatioDenominatorIsNeverZero ==
    (Boxed /\ op = "pointInsideGeoLoop") =>
        ~ratioDividesByZeroFrom(Outer, 1, loop[1].lat)

\* C24 witness: pointInside ran its loop for a point at the latitude of an
\* edge whose two endpoints have that same latitude.
C24_Witness ==
    /\ Boxed
    /\ op = "pointInsideGeoLoop"
    /\ bboxContains(bboxes[1], loop[1])
    /\ \E i \in 1..Len(Outer) :
          /\ EdgeA(Outer, i).lat = EdgeB(Outer, i).lat
          /\ EdgeA(Outer, i).lat = loop[1].lat

\* C25: whenever geoLoopInsidePolygon is true for a polygon, its boxes and a
\* candidate, geoLoopIntersectsPolygon is true for the same three.
C25_InsideImpliesIntersects ==
    (op = "geoLoopInsidePolygon" /\ result = TRUE) =>
        geoLoopIntersectsPolygon(geoPolygon, bboxes, loop)

\* C25 witness: geoLoopInsidePolygon was true for a candidate of several
\* vertices in a polygon with a hole.
C25_Witness ==
    /\ Boxed
    /\ op = "geoLoopInsidePolygon"
    /\ result = TRUE
    /\ Len(loop) > 2
    /\ numHoles(geoPolygon) > 0

\* C26: segmentIntersects is symmetric in the query endpoints: the answer
\* for (p0, p1) is the answer for (p1, p0), also when an endpoint is within
\* the coincidence threshold of a loop vertex and when the first loop edge
\* is box-pruned.
C26_SegmentIntersectsIsSymmetric ==
    (Boxed /\ SegmentCall) =>
        result = segmentIntersectsGeoLoop(Outer, bboxes[1], loop[2], loop[1])

\* The same for segments whose endpoints are equal to a loop vertex or not
\* within the threshold of any.
NoNearMiss ==
    \A e \in 1..2 : \A k \in 1..Len(Outer) :
       geoAlmostEqualThreshold(loop[e], Outer[k], DBL_EPSILON) => loop[e] = Outer[k]
SymmetricWithoutNearMiss ==
    (Boxed /\ SegmentCall /\ NoNearMiss) =>
        result = segmentIntersectsGeoLoop(Outer, bboxes[1], loop[2], loop[1])

====
